---- MODULE Spec2Model ----
(***************************************************************************)
(* Model of the prilika bookkeeping core: the journal store (JournalEntry, *)
(* JournalLine, AgentLog rows), the authoring pipeline's save              *)
(* (process_and_save), the review lifecycle (approve / reject / post) as   *)
(* the views run it, and the statement engines (trial balance, P&L,        *)
(* balance sheet, account ledger, Account.balance).                        *)
(*                                                                         *)
(* Money is counted in half-paise (0.005 rupee): a Decimal with three      *)
(* decimals coming from the maker is representable, and a stored           *)
(* DecimalField(decimal_places=2) value is an even number.                 *)
(***************************************************************************)
EXTENDS Integers, Sequences, FiniteSets, TLC

VARIABLES
    rounding,    \* how the database rounds a Decimal to two places
    entries,     \* committed JournalEntry rows, id -> row
    lines,       \* committed JournalLine rows, id -> row
    logs,        \* committed AgentLog rows, in insertion order
    entry_seq,   \* last JournalEntry id handed out by the database
    line_seq,    \* last JournalLine id handed out by the database
    sess,        \* process_and_save calls: position, result, open transaction
    req,         \* approve / reject / post requests: position, loaded object
    clock        \* the last value timezone.now() returned

vars == <<rounding, entries, lines, logs, entry_seq, line_seq, sess, req, clock>>

-----------------------------------------------------------------------------
(* Bounds of the model *)

MaxSessions == 1
MaxReqs == 2
MaxBooksCalls == 2
MaxDate == 2
MaxClock == 4
MaxCreators == 3       \* process_and_save calls in the entry-creation specification
MaxTotal == 60         \* invoice totals of the GST specification, in paise

Sessions == 1..MaxSessions
Reqs == 1..MaxReqs
Dates == 1..MaxDate

\* None for a nullable DateTimeField / DateField argument
None == 0

-----------------------------------------------------------------------------
(* Chart of accounts *)

\* Account.setup_chart_of_accounts, in Meta.ordering = ['code'] order
ChartOfAccounts ==
    << [code |-> "A001",    account_type |-> "asset",     account_subtype |-> "cash_and_bank",    is_active |-> TRUE],
       [code |-> "A002",    account_type |-> "asset",     account_subtype |-> "cash_and_bank",    is_active |-> TRUE],
       [code |-> "A003",    account_type |-> "asset",     account_subtype |-> "",                 is_active |-> FALSE],
       [code |-> "A003-CR", account_type |-> "asset",     account_subtype |-> "sundry_debtors",   is_active |-> TRUE],
       [code |-> "A003-SD", account_type |-> "asset",     account_subtype |-> "security_deposit", is_active |-> TRUE],
       [code |-> "A004",    account_type |-> "asset",     account_subtype |-> "tax_receivable",   is_active |-> TRUE],
       [code |-> "E001",    account_type |-> "expense",   account_subtype |-> "salary",           is_active |-> TRUE],
       [code |-> "E002",    account_type |-> "expense",   account_subtype |-> "operational",      is_active |-> TRUE],
       [code |-> "E003",    account_type |-> "expense",   account_subtype |-> "operational",      is_active |-> TRUE],
       [code |-> "E004",    account_type |-> "expense",   account_subtype |-> "other",            is_active |-> TRUE],
       [code |-> "EQ001",   account_type |-> "equity",    account_subtype |-> "capital",          is_active |-> TRUE],
       [code |-> "EQ002",   account_type |-> "equity",    account_subtype |-> "drawings",         is_active |-> TRUE],
       [code |-> "I001",    account_type |-> "income",    account_subtype |-> "service_income",   is_active |-> TRUE],
       [code |-> "L001",    account_type |-> "liability", account_subtype |-> "tax_payable",      is_active |-> TRUE],
       [code |-> "L002",    account_type |-> "liability", account_subtype |-> "tax_payable",      is_active |-> TRUE] >>

\* schemas.AccountCode: the codes the maker's output may name
AccountCode ==
    {"A001", "A002", "A003", "A004", "L001", "L002", "I001", "E001", "EQ001", "EQ002"}

\* Account.objects.filter(is_active=True[, account_type=t]).order_by('code')
ActiveAccounts == SelectSeq(ChartOfAccounts, LAMBDA a : a.is_active)

ActiveAccountsOfType(t) ==
    SelectSeq(ChartOfAccounts, LAMBDA a : a.is_active /\ a.account_type = t)

\* Account.is_current_asset
is_current_asset(a) ==
    /\ a.account_type = "asset"
    /\ a.account_subtype \notin {"security_deposit", "fixed_asset", "long_term_investment"}

-----------------------------------------------------------------------------
(* Arithmetic helpers *)

Abs(x) == IF x < 0 THEN -x ELSE x

RECURSIVE SumSeq(_)
SumSeq(s) == IF s = <<>> THEN 0 ELSE Head(s) + SumSeq(Tail(s))

\* the elements of a function with an integer domain, in increasing key order
RECURSIVE RowsUpTo(_, _)
RowsUpTo(f, n) ==
    IF n = 0 THEN <<>>
    ELSE IF n \in DOMAIN f THEN Append(RowsUpTo(f, n - 1), f[n])
    ELSE RowsUpTo(f, n - 1)

MapSeq(s, Op(_)) == [i \in 1..Len(s) |-> Op(s[i])]

-----------------------------------------------------------------------------
(* Queries on the journal store.  E is a JournalEntry table (id -> row) and *)
(* L a JournalLine table (id -> row); every statement engine is a function  *)
(* of the two tables it is run against.                                     *)

MaxKey(f) == IF DOMAIN f = {} THEN 0 ELSE CHOOSE m \in DOMAIN f : \A k \in DOMAIN f : k <= m

\* JournalLine.objects.all(), Meta.ordering = ['id']
AllLines(L) == RowsUpTo(L, MaxKey(L))

\* a filter that also lets approved entries through
IsPostedOrApprovedLine(E, l) == E[l.journal_entry].status \in {"posted", "approved"}

\* the join condition journal_entry__status='posted'
IsPostedLine(E, l) == E[l.journal_entry].status = "posted"

\* journal_entry__transaction_date__lte / __gte / __lt
DateLte(E, l, d) == E[l.journal_entry].transaction_date <= d
DateGte(E, l, d) == E[l.journal_entry].transaction_date >= d
DateLt(E, l, d) == E[l.journal_entry].transaction_date < d

\* .aggregate(total_debit=Sum('debit'), total_credit=Sum('credit')) with "or Decimal('0')"
Aggregate(rows) ==
    [debit  |-> SumSeq(MapSeq(rows, LAMBDA l : l.debit)),
     credit |-> SumSeq(MapSeq(rows, LAMBDA l : l.credit))]

\* Account.balance
AccountBalance(E, L, account) ==
    LET rows == SelectSeq(AllLines(L), LAMBDA l :
                    l.account_code = account.code /\ IsPostedLine(E, l))
        t == Aggregate(rows)
    IN  IF account.account_type \in {"asset", "expense"}
        THEN t.debit - t.credit
        ELSE t.credit - t.debit

-----------------------------------------------------------------------------
(* Trial balance *)

\* abs(difference) < Decimal('0.01'), in half-paise
Tolerance == 2

\* a balance kept in the account's normal column, whatever its sign
TB_calculate_signed_balance(E, L, account, as_of_date) ==
    LET rows == SelectSeq(AllLines(L), LAMBDA l :
                    /\ l.account_code = account.code
                    /\ IsPostedLine(E, l)
                    /\ DateLte(E, l, as_of_date))
        t == Aggregate(rows)
    IN  IF account.account_type \in {"asset", "expense"}
        THEN [debit_balance |-> t.debit - t.credit, credit_balance |-> 0]
        ELSE [debit_balance |-> 0, credit_balance |-> t.credit - t.debit]

\* trial_balance_service._calculate_account_balance
TB_calculate_account_balance(E, L, account, as_of_date) ==
    LET rows == SelectSeq(AllLines(L), LAMBDA l :
                    /\ l.account_code = account.code
                    /\ IsPostedLine(E, l)
                    /\ DateLte(E, l, as_of_date))
        t == Aggregate(rows)
    IN  IF account.account_type \in {"asset", "expense"}
        THEN LET balance == t.debit - t.credit
             IN  IF balance >= 0
                 THEN [debit_balance |-> balance, credit_balance |-> 0]
                 ELSE [debit_balance |-> 0, credit_balance |-> Abs(balance)]
        ELSE LET balance == t.credit - t.debit
             IN  IF balance >= 0
                 THEN [debit_balance |-> 0, credit_balance |-> balance]
                 ELSE [debit_balance |-> Abs(balance), credit_balance |-> 0]

\* one turn of "for account in accounts": the account's balance_data
TrialBalanceRow(E, L, a, as_of_date) ==
    LET b == TB_calculate_account_balance(E, L, a, as_of_date)
    IN  [code |-> a.code, account_type |-> a.account_type,
         debit_balance |-> b.debit_balance,
         credit_balance |-> b.credit_balance]

\* get_trial_balance's result from the balance_data of the active accounts
TrialBalanceOf(all, as_of_date) ==
    LET should_include(r) ==
            \/ r.account_type = "expense"
            \/ r.debit_balance # 0
            \/ r.credit_balance # 0
        rows == SelectSeq(all, should_include)
        total_debit == SumSeq(MapSeq(rows, LAMBDA r : r.debit_balance))
        total_credit == SumSeq(MapSeq(rows, LAMBDA r : r.credit_balance))
        difference == total_debit - total_credit
    IN  [accounts_by_type |->
             [t \in {"asset", "liability", "equity", "income", "expense"} |->
                 SelectSeq(rows, LAMBDA r : r.account_type = t)],
         total_debit |-> total_debit,
         total_credit |-> total_credit,
         difference |-> difference,
         is_balanced |-> Abs(difference) < Tolerance,
         as_of_date |-> as_of_date]

\* trial_balance_service.get_trial_balance run against one state of the tables
get_trial_balance(E, L, as_of_date) ==
    TrialBalanceOf(MapSeq(ActiveAccounts, LAMBDA a : TrialBalanceRow(E, L, a, as_of_date)),
                   as_of_date)

-----------------------------------------------------------------------------
(* Profit and loss *)

\* the net result reported with its sign
ReportedNetSigned(net_profit_loss) == net_profit_loss

\* 'net_profit_loss': abs(net_profit_loss)
ReportedNet(net_profit_loss) == Abs(net_profit_loss)

\* get_profit_loss with its income query run against the tables (Ei, Li) and its
\* expense query against (Ee, Le); from_date = None means since inception
ProfitLossOf(Ei, Li, Ee, Le, from_date, to_date) ==
    LET income_accounts == ActiveAccountsOfType("income")
        expense_accounts == ActiveAccountsOfType("expense")
        filters(E, l) ==
            /\ IsPostedLine(E, l)
            /\ DateLte(E, l, to_date)
            /\ (from_date # None => DateGte(E, l, from_date))
        codes(accs) == {accs[i].code : i \in 1..Len(accs)}
        \* values('account_code').annotate(Sum, Sum) and the lookup dict's .get(code, 0)
        grouped(E, L, accs, code) ==
            Aggregate(SelectSeq(AllLines(L), LAMBDA l :
                filters(E, l) /\ l.account_code \in codes(accs) /\ l.account_code = code))
        income_all == MapSeq(income_accounts, LAMBDA a :
            LET t == grouped(Ei, Li, income_accounts, a.code)
            IN  [code |-> a.code, amount |-> t.credit - t.debit])
        expense_all == MapSeq(expense_accounts, LAMBDA a :
            LET t == grouped(Ee, Le, expense_accounts, a.code)
            IN  [code |-> a.code, amount |-> t.debit - t.credit])
        income_list == SelectSeq(income_all, LAMBDA r : r.amount # 0)
        expense_list == SelectSeq(expense_all, LAMBDA r : r.amount # 0)
        total_income == SumSeq(MapSeq(income_list, LAMBDA r : r.amount))
        total_expenses == SumSeq(MapSeq(expense_list, LAMBDA r : r.amount))
        net_profit_loss == total_income - total_expenses
    IN  [income_accounts |-> income_list,
         total_income |-> total_income,
         expense_accounts |-> expense_list,
         total_expenses |-> total_expenses,
         net_profit_loss |-> ReportedNet(net_profit_loss),
         is_profit |-> net_profit_loss >= 0,
         from_date |-> from_date,
         to_date |-> to_date]

\* pnl_service.get_profit_loss run against one state of the tables
get_profit_loss(E, L, from_date, to_date) ==
    ProfitLossOf(E, L, E, L, from_date, to_date)

-----------------------------------------------------------------------------
(* Balance sheet *)

\* every balance taken as debit minus credit
BS_calculate_debit_balance(E, L, account_code, account_type, as_of_date) ==
    LET t == Aggregate(SelectSeq(AllLines(L), LAMBDA l :
                 /\ IsPostedLine(E, l)
                 /\ DateLte(E, l, as_of_date)
                 /\ l.account_code = account_code))
    IN  IF account_type \in {"asset", "liability", "equity"} THEN t.debit - t.credit
        ELSE 0

\* balance_sheet_service._calculate_account_balance over the grouped balances_dict
BS_calculate_account_balance(E, L, account_code, account_type, as_of_date) ==
    LET t == Aggregate(SelectSeq(AllLines(L), LAMBDA l :
                 /\ IsPostedLine(E, l)
                 /\ DateLte(E, l, as_of_date)
                 /\ l.account_code = account_code))
    IN  IF account_type = "asset" THEN t.debit - t.credit
        ELSE IF account_type \in {"liability", "equity"} THEN t.credit - t.debit
        ELSE 0

\* retained earnings taken as the reported magnitude, whatever is_profit says
RetainedEarningsUnsigned(pnl_data) == pnl_data.net_profit_loss

\* get_balance_sheet's retained earnings: the P&L result with its sign applied
RetainedEarnings(pnl_data) ==
    IF pnl_data.is_profit THEN pnl_data.net_profit_loss
    ELSE -pnl_data.net_profit_loss

\* get_balance_sheet with balances_query run against the tables (E, L) and
\* pnl_data the result of its get_profit_loss call
BalanceSheetOf(E, L, as_of_date, pnl_data) ==
    LET bal(t) == MapSeq(ActiveAccountsOfType(t), LAMBDA a :
                      [code |-> a.code,
                       is_current |-> is_current_asset(a),
                       balance |-> BS_calculate_account_balance(E, L, a.code, t, as_of_date)])
        assets == SelectSeq(bal("asset"), LAMBDA r : r.balance # 0)
        current_assets == SelectSeq(assets, LAMBDA r : r.is_current)
        non_current_assets == SelectSeq(assets, LAMBDA r : ~r.is_current)
        total_current_assets == SumSeq(MapSeq(current_assets, LAMBDA r : r.balance))
        total_non_current_assets == SumSeq(MapSeq(non_current_assets, LAMBDA r : r.balance))
        total_assets == total_current_assets + total_non_current_assets
        current_liabilities == SelectSeq(bal("liability"), LAMBDA r : r.balance # 0)
        total_current_liabilities == SumSeq(MapSeq(current_liabilities, LAMBDA r : r.balance))
        total_liabilities == total_current_liabilities
        equity_list == bal("equity")
        retained_earnings == RetainedEarnings(pnl_data)
        equity_sum == SumSeq(MapSeq(equity_list, LAMBDA r : r.balance))
        total_equity == equity_sum + retained_earnings
        liabilities_plus_equity == total_liabilities + total_equity
        difference == total_assets - liabilities_plus_equity
    IN  [current_assets |-> current_assets,
         non_current_assets |-> non_current_assets,
         total_current_assets |-> total_current_assets,
         total_non_current_assets |-> total_non_current_assets,
         total_assets |-> total_assets,
         current_liabilities |-> current_liabilities,
         total_current_liabilities |-> total_current_liabilities,
         total_liabilities |-> total_liabilities,
         equity_accounts |-> equity_list,
         retained_earnings |-> retained_earnings,
         total_equity |-> total_equity,
         liabilities_plus_equity |-> liabilities_plus_equity,
         is_balanced |-> Abs(difference) < Tolerance,
         difference |-> difference,
         as_of_date |-> as_of_date]

\* balance_sheet_service.get_balance_sheet run against one state of the tables
get_balance_sheet(E, L, as_of_date) ==
    BalanceSheetOf(E, L, as_of_date, get_profit_loss(E, L, None, as_of_date))

-----------------------------------------------------------------------------
(* Account ledger *)

\* lines in the order of their ids alone
LedgerBeforeById(E, a, b) ==
    \/ a.journal_entry < b.journal_entry
    \/ a.journal_entry = b.journal_entry /\ a.id < b.id

\* order_by('journal_entry__transaction_date', 'journal_entry__id', 'id')
LedgerBefore(E, a, b) ==
    LET da == E[a.journal_entry].transaction_date
        db == E[b.journal_entry].transaction_date
    IN  \/ da < db
        \/ da = db /\ a.journal_entry < b.journal_entry
        \/ da = db /\ a.journal_entry = b.journal_entry /\ a.id < b.id

RECURSIVE LedgerOrder(_, _)
LedgerOrder(E, S) ==
    IF S = {} THEN <<>>
    ELSE LET first == CHOOSE a \in S : \A b \in S \ {a} : LedgerBefore(E, a, b)
         IN  <<first>> \o LedgerOrder(E, S \ {first})

\* the running balance loop of get_account_ledger
RECURSIVE LedgerWalk(_, _, _)
LedgerWalk(account, rows, running_balance) ==
    IF rows = <<>> THEN <<>>
    ELSE LET line == Head(rows)
             next == IF account.account_type \in {"asset", "expense"}
                     THEN running_balance + (line.debit - line.credit)
                     ELSE running_balance + (line.credit - line.debit)
         IN  <<[entry_id |-> line.journal_entry, line_id |-> line.id,
                debit |-> line.debit, credit |-> line.credit, balance |-> next]>>
             \o LedgerWalk(account, Tail(rows), next)

\* a ledger that starts every window from zero
LedgerOpeningZero(E, L, account, start_date) == 0

\* get_account_ledger's opening balance: the posted lines before start_date
LedgerOpening(E, L, account, start_date) ==
    LET opening_lines == SelectSeq(AllLines(L), LAMBDA l :
            /\ l.account_code = account.code
            /\ IsPostedLine(E, l)
            /\ DateLt(E, l, start_date))
        opening == Aggregate(opening_lines)
    IN  IF start_date = None THEN 0
        ELSE IF account.account_type \in {"asset", "expense"}
             THEN opening.debit - opening.credit
             ELSE opening.credit - opening.debit

\* get_account_ledger once the account is found: the ordered lines of the
\* window, the opening balance, the running balance and the totals
LedgerOf(E, L, account, start_date, end_date) ==
    LET all == AllLines(L)
        inWindow(l) ==
            /\ l.account_code = account.code
            /\ IsPostedLine(E, l)
            /\ (start_date # None => DateGte(E, l, start_date))
            /\ (end_date # None => DateLte(E, l, end_date))
        lines_query == LedgerOrder(E, {all[i] : i \in {j \in 1..Len(all) : inWindow(all[j])}})
        opening_balance == LedgerOpening(E, L, account, start_date)
        transactions == LedgerWalk(account, lines_query, opening_balance)
    IN  [error |-> "",
         account |-> account.code,
         opening_balance |-> opening_balance,
         transactions |-> transactions,
         total_debit |-> SumSeq(MapSeq(transactions, LAMBDA t : t.debit)),
         total_credit |-> SumSeq(MapSeq(transactions, LAMBDA t : t.credit)),
         closing_balance |->
             IF transactions = <<>> THEN opening_balance
             ELSE transactions[Len(transactions)].balance,
         start_date |-> start_date,
         end_date |-> end_date]

\* a ledger service that answers for any code, without looking the account up
get_account_ledger_unchecked(E, L, account_code, start_date, end_date) ==
    LedgerOf(E, L, [code |-> account_code, account_type |-> "asset"],
             start_date, end_date)

\* ledger_service.get_account_ledger; start_date / end_date = None when not given
get_account_ledger(E, L, account_code, start_date, end_date) ==
    IF ~\E i \in 1..Len(ChartOfAccounts) : ChartOfAccounts[i].code = account_code
    THEN [error |-> "not found", account |-> None, transactions |-> <<>>]
    ELSE LedgerOf(E, L,
                  ChartOfAccounts[CHOOSE i \in 1..Len(ChartOfAccounts) :
                                      ChartOfAccounts[i].code = account_code],
                  start_date, end_date)

-----------------------------------------------------------------------------
(* Authoring pipeline: AccountingAgentService.process *)

Dr(code, amount) == [account_code |-> code, debit |-> amount, credit |-> 0]
Cr(code, amount) == [account_code |-> code, debit |-> 0, credit |-> amount]

\* What the maker may answer (the LLM is an opaque collaborator): a small set of
\* parsed JSON bodies, valid and invalid, plus an unparseable answer.
MakerOutputs ==
    { [parsed |-> TRUE, transaction_type |-> "invoice",
       lines |-> <<Dr("A003", 236), Cr("I001", 198), Cr("L001", 19), Cr("L002", 19)>>],
      [parsed |-> TRUE, transaction_type |-> "capital",
       lines |-> <<Dr("A001", 4), Cr("EQ001", 4)>>],
      [parsed |-> TRUE, transaction_type |-> "salary",
       lines |-> <<Dr("E001", 2), Cr("A001", 1), Cr("A002", 1)>>],
      [parsed |-> TRUE, transaction_type |-> "receipt",
       lines |-> <<Dr("A001", 4), Cr("I001", 2)>>],
      \* a line with both sides, a line with neither, an unknown account, one line
      [parsed |-> TRUE, transaction_type |-> "drawings",
       lines |-> <<[account_code |-> "EQ002", debit |-> 4, credit |-> 4],
                   Dr("A002", 4), Cr("A001", 4)>>],
      [parsed |-> TRUE, transaction_type |-> "drawings",
       lines |-> <<Dr("EQ002", 4), Cr("A001", 4), Dr("A002", 0)>>],
      [parsed |-> TRUE, transaction_type |-> "receipt",
       lines |-> <<Dr("A001", 4), Cr("X999", 4)>>],
      [parsed |-> TRUE, transaction_type |-> "capital",
       lines |-> <<Dr("A001", 4)>>],
      \* no JSON in the answer
      [parsed |-> FALSE, transaction_type |-> "", lines |-> <<>>] }

\* What the checker may answer
CheckerOutputs ==
    { [parsed |-> TRUE, status |-> "approved", errors |-> <<>>, warnings |-> <<>>],
      [parsed |-> TRUE, status |-> "flagged", errors |-> <<"e">>, warnings |-> <<>>],
      [parsed |-> FALSE, status |-> "", errors |-> <<>>, warnings |-> <<>>] }

\* schemas.TransactionType
TransactionType ==
    {"invoice", "receipt", "receipt_with_tds", "salary", "drawings", "capital"}

\* a breakdown that leaves the rounding remainder where it falls
from_inclusive_amount_unadjusted(total) ==
    LET base_paise == (50 * total + 59) \div 118
        cgst_paise == (9 * base_paise + 50) \div 100
    IN  [total_amount |-> total,
         base_amount |-> 2 * base_paise,
         cgst |-> 2 * cgst_paise,
         sgst |-> 2 * cgst_paise]

\* GSTBreakdown.from_inclusive_amount: ROUND_HALF_UP to two decimals, the
\* remainder absorbed into sgst.  Amounts in half-paise, so a paisa is 2.
from_inclusive_amount(total) ==
    LET base_paise == (50 * total + 59) \div 118
        cgst_paise == (9 * base_paise + 50) \div 100
        base == 2 * base_paise
        cgst == 2 * cgst_paise
        sgst == 2 * cgst_paise
        calculated_total == base + cgst + sgst
    IN  [total_amount |-> total,
         base_amount |-> base,
         cgst |-> cgst,
         sgst |-> IF calculated_total # total
                  THEN sgst + (total - calculated_total) ELSE sgst]

\* the "Neuro-Symbolic Repair" block of process(): applied <=> a repair log is written
RepairApplies(m) ==
    /\ m.transaction_type = "invoice"
    /\ SumSeq(MapSeq(m.lines, LAMBDA l : IF l.debit > 0 THEN l.debit ELSE 0)) > 0

\* a repair that leaves no record
RepairSilent(m) == FALSE

\* the "Applied Math Repair" log: written in the branch that repairs the lines
RepairLogged(m) == RepairApplies(m)

Repair(m) ==
    IF ~RepairApplies(m) THEN m
    ELSE LET total_debit ==
                 SumSeq(MapSeq(m.lines, LAMBDA l : IF l.debit > 0 THEN l.debit ELSE 0))
             breakdown == from_inclusive_amount(total_debit)
         IN  [m EXCEPT !.lines = MapSeq(m.lines, LAMBDA l :
                 IF l.account_code = "I001" THEN [l EXCEPT !.credit = breakdown.base_amount]
                 ELSE IF l.account_code = "L001" THEN [l EXCEPT !.credit = breakdown.cgst]
                 ELSE IF l.account_code = "L002" THEN [l EXCEPT !.credit = breakdown.sgst]
                 ELSE l)]

\* schemas.JournalLine.exactly_one_side (with Field(ge=0))
exactly_one_side(l) ==
    /\ l.debit >= 0 /\ l.credit >= 0
    /\ ~(l.debit > 0 /\ l.credit > 0)
    /\ (l.debit > 0 \/ l.credit > 0)

\* schemas.JournalEntry.must_balance
must_balance(ls) ==
    SumSeq(MapSeq(ls, LAMBDA l : l.debit)) = SumSeq(MapSeq(ls, LAMBDA l : l.credit))

\* the construction of schemas.JournalEntry without its must_balance validator
ValidatesUnbalanced(m) ==
    /\ m.transaction_type \in TransactionType
    /\ \A i \in 1..Len(m.lines) :
          m.lines[i].account_code \in AccountCode /\ exactly_one_side(m.lines[i])
    /\ Len(m.lines) >= 2

\* the construction of schemas.JournalEntry in process() succeeds
Validates(m) ==
    /\ m.transaction_type \in TransactionType
    /\ \A i \in 1..Len(m.lines) :
          m.lines[i].account_code \in AccountCode /\ exactly_one_side(m.lines[i])
    /\ Len(m.lines) >= 2
    /\ must_balance(m.lines)

\* a checker answer taken on its status alone
CheckerValidatesStatusOnly(c) ==
    c.parsed /\ c.status \in {"approved", "flagged"}

\* schemas.CheckerResult with status_matches_issues
CheckerValidates(c) ==
    LET has_issues == Len(c.errors) > 0 \/ Len(c.warnings) > 0
    IN  /\ c.parsed
        /\ c.status \in {"approved", "flagged"}
        /\ ~(c.status = "approved" /\ has_issues)
        /\ ~(c.status = "flagged" /\ ~has_issues)

NoEntry == [transaction_date |-> None, transaction_type |-> "", lines |-> <<>>]
NoChecker == [status |-> "", errors |-> <<>>, warnings |-> <<>>]

Log(stage, level, message) == [stage |-> stage, level |-> level, message |-> message]

\* AccountingAgentService.process: the result dict and the AgentLog rows written,
\* for maker answer m dated d and checker answer c
process(m, d, c) ==
    LET head == <<Log("input", "info", "received"), Log("maker", "info", "starting")>>
    IN
    IF ~m.parsed
    THEN [entry |-> NoEntry, checker_result |-> NoChecker, success |-> FALSE,
          errors |-> <<"maker">>,
          logs |-> head \o <<Log("maker", "info", "completed"),
                             Log("maker", "error", "failed")>>]
    ELSE
    LET repaired == Repair(m)
        valid == Validates(repaired)
        entry == IF valid
                 THEN [transaction_date |-> d,
                       transaction_type |-> repaired.transaction_type,
                       lines |-> repaired.lines]
                 ELSE NoEntry
        validation ==
            <<Log("maker", "info", "completed"), Log("validation", "info", "starting")>>
            \o (IF RepairLogged(m) THEN <<Log("maker", "info", "repair")>> ELSE <<>>)
            \o (IF valid THEN <<Log("validation", "info", "passed")>>
                ELSE <<Log("validation", "error", "failed")>>)
        checked == CheckerValidates(c)
        checker ==
            <<Log("checker", "info", "starting")>>
            \o (IF c.parsed THEN <<Log("checker", "info", "completed")>> ELSE <<>>)
            \o (IF checked THEN <<Log("complete", "info", "complete")>>
                ELSE <<Log("checker", "error", "failed")>>)
    IN  [entry |-> entry,
         checker_result |-> IF checked
                            THEN [status |-> c.status, errors |-> c.errors,
                                  warnings |-> c.warnings]
                            ELSE NoChecker,
         success |-> valid /\ checked,
         errors |-> (IF valid THEN <<>> ELSE <<"validation">>)
                    \o (IF checked THEN <<>> ELSE <<"checker">>),
         logs |-> head \o validation \o checker]

-----------------------------------------------------------------------------
(* The journal store *)

\* DecimalField(max_digits=15, decimal_places=2) on write: the value is rounded
\* to two places, half-even by Django's format_number (SQLite) and half away
\* from zero by a numeric(15,2) column (PostgreSQL).  h >= 0 in half-paise.
Quantize(h, mode) ==
    IF h % 2 = 0 THEN h
    ELSE LET paise == (h - 1) \div 2
         IN  IF mode = "ROUND_HALF_EVEN" /\ paise % 2 = 0 THEN 2 * paise
             ELSE 2 * (paise + 1)

\* date.year: two dates to a calendar year
Year(d) == (d + 1) \div 2

\* JournalEntry.save: the next JV-<year>-<seq> among the rows the query sees
NextEntryNumber(E, transaction_date) ==
    LET year == Year(transaction_date)
        same == {E[i].entry_number.num : i \in {j \in DOMAIN E : E[j].entry_number.year = year}}
    IN  [year |-> year,
         num |-> IF same = {} THEN 1
                 ELSE (CHOOSE n \in same : \A k \in same : k <= n) + 1]

\* JournalEntry.is_balanced: aggregates the stored lines of the entry
is_balanced(L, entry_id) ==
    LET t == Aggregate(SelectSeq(AllLines(L), LAMBDA l : l.journal_entry = entry_id))
    IN  t.debit = t.credit

\* the field values of DjangoJournalEntry.objects.create(...)
EntryRow(id, number, entry, status, checker) ==
    [id |-> id,
     entry_number |-> number,
     transaction_date |-> entry.transaction_date,
     transaction_type |-> entry.transaction_type,
     status |-> status,
     checker_status |-> checker.status,
     checker_errors |-> checker.errors,
     checker_warnings |-> checker.warnings,
     reviewed_by |-> "", review_notes |-> "",
     reviewed_at |-> None, posted_at |-> None]

\* the field values of DjangoJournalLine.objects.create(...), as stored
LineRow(id, entry_id, line, mode) ==
    [id |-> id,
     journal_entry |-> entry_id,
     account_code |-> line.account_code,
     debit |-> Quantize(line.debit, mode),
     credit |-> Quantize(line.credit, mode)]

\* a write that every reader sees at once, as outside an atomic block
AutocommitWrite(table, buffer, row) ==
    [table |-> table @@ (row.id :> row), buffer |-> buffer]

\* a write made inside "with transaction.atomic()": held in the transaction
\* until it commits
TxWrite(table, buffer, row) ==
    [table |-> table, buffer |-> buffer @@ (row.id :> row)]

Empty == [i \in {} |-> 0]

IdleSession ==
    [pc |-> "idle", entry |-> NoEntry, checker_result |-> NoChecker,
     success |-> FALSE, errors |-> <<>>, status |-> "", number |-> [year |-> 0, num |-> 0],
     entry_id |-> 0, tx_entries |-> Empty, tx_lines |-> Empty, tx_linked |-> FALSE]

NoObject ==
    [id |-> 0, entry_number |-> [year |-> 0, num |-> 0], transaction_date |-> None,
     transaction_type |-> "", status |-> "", checker_status |-> "",
     checker_errors |-> <<>>, checker_warnings |-> <<>>,
     reviewed_by |-> "", review_notes |-> "", reviewed_at |-> None, posted_at |-> None]

IdleRequest ==
    [pc |-> "idle", kind |-> "", loaded |-> NoObject, obj |-> NoObject,
     reviewer |-> "", notes |-> "", result |-> ""]

Init ==
    /\ rounding \in {"ROUND_HALF_EVEN", "ROUND_HALF_UP"}
    /\ entries = Empty
    /\ lines = Empty
    /\ logs = <<>>
    /\ entry_seq = 0
    /\ line_seq = 0
    /\ sess = [s \in Sessions |-> IdleSession]
    /\ req = [r \in Reqs |-> IdleRequest]
    /\ clock = 0

-----------------------------------------------------------------------------
(* process_and_save *)

\* the AgentLog rows process() writes for session s, not yet linked to an entry
SessionLogs(s, rows) ==
    MapSeq(rows, LAMBDA g :
        [session_id |-> s, stage |-> g.stage, level |-> g.level,
         message |-> g.message, journal_entry |-> None])

\* process_and_save taking the checker's "approved" for the entry's status
AfterProcessTrusting(result) ==
    IF result.entry = NoEntry \/ result.checker_result = NoChecker
    THEN [IdleSession EXCEPT !.pc = "returned"]
    ELSE [IdleSession EXCEPT !.entry = result.entry,
                             !.checker_result = result.checker_result,
                             !.success = result.success,
                             !.errors = result.errors,
                             !.status = result.checker_result.status,
                             !.pc = "save_entry"]

\* process_and_save after "result = service.process(...)", up to the atomic block
AfterProcess(result) ==
    IF result.entry = NoEntry
    THEN \* "if result["entry"] is None: return result"
         [IdleSession EXCEPT !.checker_result = result.checker_result,
                             !.success = result.success,
                             !.errors = result.errors,
                             !.pc = "returned"]
    ELSE IF result.checker_result = NoChecker
    THEN \* checker is None: "checker.status" raises and no result is returned
         [IdleSession EXCEPT !.pc = "raised"]
    ELSE [IdleSession EXCEPT !.entry = result.entry,
                             !.checker_result = result.checker_result,
                             !.success = result.success,
                             !.errors = result.errors,
                             !.status = IF result.checker_result.status = "approved"
                                        THEN "pending_review" ELSE "flagged",
                             !.pc = "save_entry"]

\* the AgentLog row of the except branch of process_and_save
FailureLog(s) ==
    [session_id |-> s, stage |-> "complete", level |-> "error",
     message |-> "save failed", journal_entry |-> None]

\* the rows of session s linked to the entry
LinkedLogs(rows, s, entry_id) ==
    MapSeq(rows, LAMBDA g :
        IF g.session_id = s THEN [g EXCEPT !.journal_entry = entry_id] ELSE g)

\* service.process(description, transaction_date), then the branch of
\* process_and_save on its result (lines 441-455)
Process(s, makers, checkers) ==
    /\ sess[s].pc = "idle"
    \* the calls are numbered in the order they start
    /\ \A o \in DOMAIN sess : o < s => sess[o].pc # "idle"
    /\ \E m \in makers, d \in Dates, c \in checkers :
          LET result == process(m, d, c)
          IN  /\ logs' = logs \o SessionLogs(s, result.logs)
              /\ sess' = [sess EXCEPT ![s] = AfterProcess(result)]
    /\ UNCHANGED <<rounding, entries, lines, entry_seq, line_seq, req, clock>>

\* DjangoJournalEntry.objects.create -> JournalEntry.save: the entry number is read
GenerateNumber(s) ==
    /\ sess[s].pc = "save_entry"
    /\ sess' = [sess EXCEPT ![s] =
           [@ EXCEPT !.number = NextEntryNumber(entries, sess[s].entry.transaction_date),
                     !.pc = "insert_entry"]]
    /\ UNCHANGED <<rounding, entries, lines, logs, entry_seq, line_seq, req, clock>>

\* another open transaction holds an uncommitted row with this entry number:
\* the INSERT waits on the unique index
BlockedOnNumber(s) ==
    \E o \in DOMAIN sess \ {s} : \E i \in DOMAIN sess[o].tx_entries :
        sess[o].tx_entries[i].entry_number = sess[s].number

NumberTaken(s) ==
    \E i \in DOMAIN entries : entries[i].entry_number = sess[s].number

\* the except branch of process_and_save: the transaction is rolled back, the
\* failure is logged and re-raised
Rollback(s) ==
    /\ sess' = [sess EXCEPT ![s] =
           [IdleSession EXCEPT !.entry_id = sess[s].entry_id, !.pc = "raised"]]
    /\ logs' = Append(logs, FailureLog(s))

\* super().save(): INSERT of the JournalEntry row (entry_number is unique)
InsertEntry(s) ==
    /\ sess[s].pc = "insert_entry"
    /\ ~BlockedOnNumber(s)
    /\ entry_seq' = entry_seq + 1
    /\ IF NumberTaken(s)
       THEN /\ Rollback(s)
            /\ UNCHANGED <<entries>>
       ELSE LET row == EntryRow(entry_seq + 1, sess[s].number, sess[s].entry,
                                sess[s].status, sess[s].checker_result)
                w == TxWrite(entries, sess[s].tx_entries, row)
            IN  /\ entries' = w.table
                /\ sess' = [sess EXCEPT ![s] =
                       [@ EXCEPT !.tx_entries = w.buffer, !.entry_id = row.id,
                                 !.pc = "create_lines"]]
                /\ UNCHANGED logs
    /\ UNCHANGED <<rounding, lines, line_seq, req, clock>>

\* one turn of "for line in entry.lines: DjangoJournalLine.objects.create(...)"
CreateLine(s) ==
    /\ sess[s].pc = "create_lines"
    /\ LET k == Cardinality(DOMAIN sess[s].tx_lines
                            \cup {i \in DOMAIN lines : lines[i].journal_entry = sess[s].entry_id}) + 1
           line == sess[s].entry.lines[k]
           row == LineRow(line_seq + 1, sess[s].entry_id, line, rounding)
           w == TxWrite(lines, sess[s].tx_lines, row)
       IN  /\ lines' = w.table
           /\ line_seq' = line_seq + 1
           /\ sess' = [sess EXCEPT ![s] =
                  [@ EXCEPT !.tx_lines = w.buffer,
                            !.pc = IF k = Len(sess[s].entry.lines)
                                   THEN "link_logs" ELSE "create_lines"]]
    /\ UNCHANGED <<rounding, entries, logs, entry_seq, req, clock>>

\* AgentLog.objects.filter(session_id=...).update(journal_entry=db_entry)
LinkLogs(s) ==
    /\ sess[s].pc = "link_logs"
    /\ sess' = [sess EXCEPT ![s] = [@ EXCEPT !.tx_linked = TRUE, !.pc = "commit"]]
    /\ UNCHANGED <<rounding, entries, lines, logs, entry_seq, line_seq, req, clock>>

\* leaving the atomic block: everything the transaction wrote becomes visible
Commit(s) ==
    /\ sess[s].pc = "commit"
    /\ entries' = entries @@ sess[s].tx_entries
    /\ lines' = lines @@ sess[s].tx_lines
    /\ logs' = IF sess[s].tx_linked
               THEN LinkedLogs(logs, s, sess[s].entry_id)
               ELSE logs
    /\ sess' = [sess EXCEPT ![s] =
           [@ EXCEPT !.tx_entries = Empty, !.tx_lines = Empty, !.tx_linked = FALSE,
                     !.pc = "saved"]]
    /\ UNCHANGED <<rounding, entry_seq, line_seq, req, clock>>

\* a write inside the atomic block raises (a database error)
SaveFails(s) ==
    /\ sess[s].pc \in {"insert_entry", "create_lines", "link_logs", "commit"}
    /\ Rollback(s)
    /\ UNCHANGED <<rounding, entries, lines, entry_seq, line_seq, req, clock>>

-----------------------------------------------------------------------------
(* Review lifecycle: the views load the entry, then call approve / reject /  *)
(* post on the loaded object; save() writes every field of the object back.  *)

\* request.user.username of the approving user; reject_entry passes "Admin"
Usernames == {"alice"}
\* data.get('reason', 'Rejected by user')
Reasons == {"Rejected by user"}

\* Model.save() of a loaded object: UPDATE of all the row's fields
\* a save() that numbers the entry anew every time
SaveObjectRenumbering(E, obj) ==
    [E EXCEPT ![obj.id] =
        [obj EXCEPT !.entry_number = NextEntryNumber(E, obj.transaction_date)]]

\* JournalEntry.save of a loaded entry: a number is generated only when the
\* entry has none, then every field is written
SaveObject(E, obj) ==
    [E EXCEPT ![obj.id] =
        IF obj.entry_number.num = 0
        THEN [obj EXCEPT !.entry_number = NextEntryNumber(E, obj.transaction_date)]
        ELSE obj]

\* timezone.now(): strictly later than every earlier reading
Now == clock + 1

\* entry = get_object_or_404(JournalEntry, id=entry_id) of an existing entry
LoadEntry(r, kind, reviewer, notes) ==
    /\ req[r].pc = "idle"
    \* a request is taken by the first free worker
    /\ \A o \in DOMAIN req : o < r => req[o].pc # "idle"
    /\ \E id \in DOMAIN entries :
          req' = [req EXCEPT ![r] =
              [pc |-> "loaded", kind |-> kind, loaded |-> entries[id],
               obj |-> entries[id],
               reviewer |-> reviewer, notes |-> notes, result |-> ""]]
    /\ UNCHANGED <<rounding, entries, lines, logs, entry_seq, line_seq, sess, clock>>

\* views.approve_entry up to entry.approve(reviewer=reviewer)
approve_entry(r) == \E u \in Usernames : LoadEntry(r, "approve", u, "")

\* views.reject_entry up to entry.reject(reviewer="Admin", notes=reason)
reject_entry(r) == \E n \in Reasons : LoadEntry(r, "reject", "Admin", n)

\* the view routed at api/entries/<id>/post/ up to entry.post()
post_entry(r) == LoadEntry(r, "post", "", "")

\* approve without its balance check
ApproveUnguarded(L, obj) == TRUE

\* the guard of JournalEntry.approve
ApproveGuard(L, obj) == is_balanced(L, obj.id)

\* approve without its timestamp
ApprovedUnstamped(obj, reviewer, notes, now) ==
    [obj EXCEPT !.status = "approved", !.reviewed_by = reviewer,
                !.review_notes = notes]

\* the assignments of JournalEntry.approve
Approved(obj, reviewer, notes, now) ==
    [obj EXCEPT !.status = "approved", !.reviewed_by = reviewer,
                !.review_notes = notes, !.reviewed_at = now]

\* the assignments of JournalEntry.reject
Rejected(obj, reviewer, notes, now) ==
    [obj EXCEPT !.status = "rejected", !.reviewed_by = reviewer,
                !.review_notes = notes, !.reviewed_at = now]

\* post refusing only the entries that were turned down
PostGuardLax(obj) == obj.status \notin {"rejected", "flagged", "draft", "posted"}

\* the guard of JournalEntry.post
PostGuard(obj) == obj.status = "approved"

\* the assignments of JournalEntry.post
Posted(obj, now) == [obj EXCEPT !.status = "posted", !.posted_at = now]

\* JournalEntry.approve on the loaded object, and the view's answer
approve(r) ==
    /\ req[r].pc = "loaded" /\ req[r].kind = "approve"
    /\ IF ~ApproveGuard(lines, req[r].obj)
       THEN /\ req' = [req EXCEPT ![r] = [@ EXCEPT !.pc = "done", !.result = "error"]]
            /\ UNCHANGED <<entries, clock>>
       ELSE /\ clock < MaxClock
            /\ LET obj == Approved(req[r].obj, req[r].reviewer, req[r].notes, Now)
               IN  /\ entries' = SaveObject(entries, obj)
                   /\ req' = [req EXCEPT ![r] =
                          [@ EXCEPT !.pc = "done", !.result = "ok", !.obj = obj]]
            /\ clock' = Now
    /\ UNCHANGED <<rounding, lines, logs, entry_seq, line_seq, sess>>

\* JournalEntry.reject on the loaded object, and the view's answer
reject(r) ==
    /\ req[r].pc = "loaded" /\ req[r].kind = "reject"
    /\ clock < MaxClock
    /\ LET obj == Rejected(req[r].obj, req[r].reviewer, req[r].notes, Now)
       IN  /\ entries' = SaveObject(entries, obj)
           /\ req' = [req EXCEPT ![r] =
                  [@ EXCEPT !.pc = "done", !.result = "ok", !.obj = obj]]
    /\ clock' = Now
    /\ UNCHANGED <<rounding, lines, logs, entry_seq, line_seq, sess>>

\* JournalEntry.post on the loaded object, and the view's answer
post(r) ==
    /\ req[r].pc = "loaded" /\ req[r].kind = "post"
    /\ IF ~PostGuard(req[r].obj)
       THEN /\ req' = [req EXCEPT ![r] = [@ EXCEPT !.pc = "done", !.result = "error"]]
            /\ UNCHANGED <<entries, clock>>
       ELSE /\ clock < MaxClock
            /\ LET obj == Posted(req[r].obj, Now)
               IN  /\ entries' = SaveObject(entries, obj)
                   /\ req' = [req EXCEPT ![r] =
                          [@ EXCEPT !.pc = "done", !.result = "ok", !.obj = obj]]
            /\ clock' = Now
    /\ UNCHANGED <<rounding, lines, logs, entry_seq, line_seq, sess>>

\* the response is sent; the worker takes the next request
Respond(r) ==
    /\ req[r].pc = "done"
    /\ req' = [req EXCEPT ![r] = IdleRequest]
    /\ UNCHANGED <<rounding, entries, lines, logs, entry_seq, line_seq, sess, clock>>

-----------------------------------------------------------------------------

Next ==
    \/ \E s \in DOMAIN sess : Process(s, MakerOutputs, CheckerOutputs)
    \/ \E s \in DOMAIN sess : GenerateNumber(s)
    \/ \E s \in DOMAIN sess : InsertEntry(s)
    \/ \E s \in DOMAIN sess : CreateLine(s)
    \/ \E s \in DOMAIN sess : LinkLogs(s)
    \/ \E s \in DOMAIN sess : Commit(s)
    \/ \E s \in DOMAIN sess : SaveFails(s)
    \/ \E r \in DOMAIN req : approve_entry(r)
    \/ \E r \in DOMAIN req : reject_entry(r)
    \/ \E r \in DOMAIN req : post_entry(r)
    \/ \E r \in DOMAIN req : approve(r)
    \/ \E r \in DOMAIN req : reject(r)
    \/ \E r \in DOMAIN req : post(r)
    \/ \E r \in DOMAIN req : Respond(r)

Spec == Init /\ [][Next]_vars

-----------------------------------------------------------------------------
(* The same handlers run one at a time, each from its first statement to its *)
(* last: the books as a sequence of whole process_and_save, approve_entry,   *)
(* reject_entry and post calls.                                              *)

InitBooks ==
    /\ rounding \in {"ROUND_HALF_EVEN", "ROUND_HALF_UP"}
    /\ entries = Empty
    /\ lines = Empty
    /\ logs = <<>>
    /\ entry_seq = 0
    /\ line_seq = 0
    /\ sess = [s \in 1..MaxBooksCalls |-> IdleSession]
    /\ req = [r \in Reqs |-> IdleRequest]
    /\ clock = 0

\* process_and_save from call to return (or raise)
ProcessAndSaveOf(s, makers, checkers) ==
    /\ sess[s].pc = "idle"
    /\ \A o \in DOMAIN sess : o < s => sess[o].pc # "idle"
    /\ \E m \in makers, d \in Dates, c \in checkers :
          LET result == process(m, d, c)
              after == AfterProcess(result)
              written == logs \o SessionLogs(s, result.logs)
              id == entry_seq + 1
              n == Len(result.entry.lines)
          IN  IF after.pc # "save_entry"
              THEN /\ sess' = [sess EXCEPT ![s] = after]
                   /\ logs' = written
                   /\ UNCHANGED <<entries, lines, entry_seq, line_seq>>
              ELSE \/ \* the atomic block commits
                      /\ entries' = entries @@
                             (id :> EntryRow(id, NextEntryNumber(entries, d), result.entry,
                                             after.status, result.checker_result))
                      /\ lines' = lines @@
                             [i \in (line_seq + 1)..(line_seq + n) |->
                                 LineRow(i, id, result.entry.lines[i - line_seq], rounding)]
                      /\ logs' = LinkedLogs(written, s, id)
                      /\ entry_seq' = id
                      /\ line_seq' = line_seq + n
                      /\ sess' = [sess EXCEPT ![s] =
                             [after EXCEPT !.number = NextEntryNumber(entries, d),
                                           !.entry_id = id, !.pc = "saved"]]
                   \/ \* a write raises after the entry and k lines: rolled back
                      \E k \in 0..n :
                         /\ entry_seq' = id
                         /\ line_seq' = line_seq + k
                         /\ logs' = Append(written, FailureLog(s))
                         /\ sess' = [sess EXCEPT ![s] =
                                [IdleSession EXCEPT !.entry_id = id, !.pc = "raised"]]
                         /\ UNCHANGED <<entries, lines>>
    /\ UNCHANGED <<rounding, req, clock>>

ProcessAndSave(s) == ProcessAndSaveOf(s, MakerOutputs, CheckerOutputs)

\* views.approve_entry from request to response
ApproveEntry(id) ==
    /\ id \in DOMAIN entries
    /\ clock < MaxClock
    /\ \E u \in Usernames :
          IF ApproveGuard(lines, entries[id])
          THEN /\ entries' = SaveObject(entries, Approved(entries[id], u, "", Now))
               /\ clock' = Now
          ELSE UNCHANGED <<entries, clock>>
    /\ UNCHANGED <<rounding, lines, logs, entry_seq, line_seq, sess, req>>

\* views.reject_entry from request to response
RejectEntry(id) ==
    /\ id \in DOMAIN entries
    /\ clock < MaxClock
    /\ \E n \in Reasons :
          entries' = SaveObject(entries, Rejected(entries[id], "Admin", n, Now))
    /\ clock' = Now
    /\ UNCHANGED <<rounding, lines, logs, entry_seq, line_seq, sess, req>>

\* the post view from request to response
PostEntry(id) ==
    /\ id \in DOMAIN entries
    /\ clock < MaxClock
    /\ IF PostGuard(entries[id])
       THEN /\ entries' = SaveObject(entries, Posted(entries[id], Now))
            /\ clock' = Now
       ELSE UNCHANGED <<entries, clock>>
    /\ UNCHANGED <<rounding, lines, logs, entry_seq, line_seq, sess, req>>

NextBooks ==
    \/ \E s \in DOMAIN sess : ProcessAndSave(s)
    \/ \E id \in DOMAIN entries : ApproveEntry(id)
    \/ \E id \in DOMAIN entries : RejectEntry(id)
    \/ \E id \in DOMAIN entries : PostEntry(id)

SpecBooks == InitBooks /\ [][NextBooks]_vars

-----------------------------------------------------------------------------
(* Entry creation on its own: process_and_save calls of valid entries,        *)
(* interleaved statement by statement, and the admin site's delete.           *)

InitCreate ==
    /\ rounding \in {"ROUND_HALF_EVEN", "ROUND_HALF_UP"}
    /\ entries = Empty
    /\ lines = Empty
    /\ logs = <<>>
    /\ entry_seq = 0
    /\ line_seq = 0
    /\ sess = [s \in 1..MaxCreators |-> IdleSession]
    /\ req = [r \in Reqs |-> IdleRequest]
    /\ clock = 0

\* maker and checker answers that lead to a saved entry
SavedMakers == {m \in MakerOutputs : m.transaction_type = "capital" /\ Validates(m)}
SavedCheckers == {c \in CheckerOutputs : c.status = "approved"}

\* a table without the rows that satisfy Gone
Without(table, Gone(_)) == [i \in {j \in DOMAIN table : ~Gone(table[j])} |-> table[i]]

\* JournalEntryAdmin's delete of a committed entry: its lines go with it
\* (on_delete=CASCADE), its logs lose the link (on_delete=SET_NULL)
DeleteEntry(id) ==
    /\ id \in DOMAIN entries
    /\ entries' = Without(entries, LAMBDA e : e.id = id)
    /\ lines' = Without(lines, LAMBDA l : l.journal_entry = id)
    /\ logs' = MapSeq(logs, LAMBDA g :
                   IF g.journal_entry = id THEN [g EXCEPT !.journal_entry = None] ELSE g)
    /\ UNCHANGED <<rounding, entry_seq, line_seq, sess, req, clock>>

NextCreate ==
    \/ \E s \in DOMAIN sess : Process(s, SavedMakers, SavedCheckers)
    \/ \E s \in DOMAIN sess : GenerateNumber(s)
    \/ \E s \in DOMAIN sess : InsertEntry(s)
    \/ \E s \in DOMAIN sess : CreateLine(s)
    \/ \E s \in DOMAIN sess : LinkLogs(s)
    \/ \E s \in DOMAIN sess : Commit(s)
    \/ \E id \in DOMAIN entries : DeleteEntry(id)

SpecCreate == InitCreate /\ [][NextCreate]_vars

-----------------------------------------------------------------------------
(* The books of a business that raises the GST invoice of 118000.00 on A001:  *)
(* capital, drawings and the invoice are authored, approved and posted.       *)

\* the maker's entry for an invoice of 118000.00 including 18% GST, in half-paise
Invoice118000 ==
    [parsed |-> TRUE, transaction_type |-> "invoice",
     lines |-> <<Dr("A001", 23600000), Cr("I001", 20000000),
                 Cr("L001", 1800000), Cr("L002", 1800000)>>]

\* the maker's entry for cash the owner draws from A001
Drawings ==
    [parsed |-> TRUE, transaction_type |-> "drawings",
     lines |-> <<Dr("EQ002", 4), Cr("A001", 4)>>]

InvoiceMakers == {Invoice118000, Drawings} \cup SavedMakers

NextInvoice ==
    \/ \E s \in DOMAIN sess : ProcessAndSaveOf(s, InvoiceMakers, SavedCheckers)
    \/ \E id \in DOMAIN entries : ApproveEntry(id)
    \/ \E id \in DOMAIN entries : PostEntry(id)

SpecInvoice == InitBooks /\ [][NextInvoice]_vars

-----------------------------------------------------------------------------
(* Invoices of every small total, and of 118000.00, authored and saved: the   *)
(* repair step of process() applies GSTBreakdown.from_inclusive_amount.       *)

\* two-decimal totals, in half-paise
GSTTotals == {2 * t : t \in 1..MaxTotal} \cup {23600000}

\* the maker's invoice for a total, its own split of the credit side left to
\* the repair step
GSTInvoice(total) ==
    [parsed |-> TRUE, transaction_type |-> "invoice",
     lines |-> <<Dr("A001", total), Cr("I001", total), Cr("L001", 2), Cr("L002", 2)>>]

GSTInvoices == {GSTInvoice(total) : total \in GSTTotals}

NextGST ==
    \E s \in DOMAIN sess : ProcessAndSaveOf(s, GSTInvoices, SavedCheckers)

SpecGST == InitBooks /\ [][NextGST]_vars

-----------------------------------------------------------------------------
(* The books of a trading period: capital paid in, an invoice raised, a       *)
(* receipt banked, salary paid and cash drawn, each authored, approved and    *)
(* posted.                                                                    *)

\* the maker's entry for salary paid from A001
SalaryPaid ==
    [parsed |-> TRUE, transaction_type |-> "salary",
     lines |-> <<Dr("E001", 4), Cr("A001", 4)>>]

\* the maker's entry for a receipt of service income banked on A001
ReceiptBanked ==
    [parsed |-> TRUE, transaction_type |-> "receipt",
     lines |-> <<Dr("A001", 2), Cr("I001", 2)>>]

TradeMakers ==
    {SalaryPaid, ReceiptBanked, Drawings} \cup SavedMakers
      \cup {m \in MakerOutputs : m.transaction_type = "invoice"}

NextTrade ==
    \/ \E s \in DOMAIN sess : ProcessAndSaveOf(s, TradeMakers, SavedCheckers)
    \/ \E id \in DOMAIN entries : ApproveEntry(id)
    \/ \E id \in DOMAIN entries : PostEntry(id)

SpecTrade == InitBooks /\ [][NextTrade]_vars

-----------------------------------------------------------------------------
(* Authoring under every kind of checker answer, consistent or not, followed  *)
(* by the review of what was saved.                                           *)

\* what the checker may answer, with the answers whose status contradicts
\* their issues
CheckerAnswers ==
    CheckerOutputs \cup
    { [parsed |-> TRUE, status |-> "approved", errors |-> <<"e">>, warnings |-> <<>>],
      [parsed |-> TRUE, status |-> "approved", errors |-> <<>>, warnings |-> <<"w">>],
      [parsed |-> TRUE, status |-> "flagged", errors |-> <<>>, warnings |-> <<"w">>],
      [parsed |-> TRUE, status |-> "flagged", errors |-> <<>>, warnings |-> <<>>] }

NextChecked ==
    \/ \E s \in DOMAIN sess : ProcessAndSaveOf(s, SavedMakers \cup {ReceiptBanked}, CheckerAnswers)
    \/ \E id \in DOMAIN entries : ApproveEntry(id)
    \/ \E id \in DOMAIN entries : RejectEntry(id)

SpecChecked == InitBooks /\ [][NextChecked]_vars

-----------------------------------------------------------------------------
(* Statement requests.  The statement views run outside any transaction: each *)
(* query of a statement engine is its own autocommit statement and reads the  *)
(* rows committed at the moment it runs.  A statement request is followed     *)
(* query by query while post() commits in between.                            *)

\* the statement a request of this kind would return if run against (E, L) alone
StatementOf(kind, E, L, as_of_date) ==
    IF kind = "trial_balance" THEN get_trial_balance(E, L, as_of_date)
    ELSE get_balance_sheet(E, L, as_of_date)

\* no statement request is under way or unanswered
Quiet == \A r \in DOMAIN req : req[r].pc = "idle"

\* trial_balance_view / balance_sheet_view call the engine: nothing is read yet.
\* "points" collects the statement of every state the store is in during the call.
StartStatement(r, kind, as_of_date) ==
    /\ Quiet
    /\ r = 1
    \* an approved entry is waiting to be posted
    /\ \E id \in DOMAIN entries : PostGuard(entries[id])
    /\ req' = [req EXCEPT ![r] =
           [pc |-> "reading", kind |-> kind, as_of_date |-> as_of_date,
            rows |-> <<>>, snaps |-> <<>>,
            points |-> {StatementOf(kind, entries, lines, as_of_date)},
            result |-> None]]
    /\ UNCHANGED <<rounding, entries, lines, logs, entry_seq, line_seq, sess, clock>>

\* get_trial_balance: one turn of "for account in accounts", the aggregate query
\* of _calculate_account_balance; after the last account the result is returned
TrialBalanceQuery(r) ==
    /\ req[r].pc = "reading" /\ req[r].kind = "trial_balance"
    /\ LET a == ActiveAccounts[Len(req[r].rows) + 1]
           rows == Append(req[r].rows,
                          TrialBalanceRow(entries, lines, a, req[r].as_of_date))
       IN  req' = [req EXCEPT ![r] =
               IF Len(rows) < Len(ActiveAccounts)
               THEN [@ EXCEPT !.rows = rows]
               ELSE [@ EXCEPT !.rows = rows, !.pc = "done",
                              !.result = TrialBalanceOf(rows, req[r].as_of_date)]]
    /\ UNCHANGED <<rounding, entries, lines, logs, entry_seq, line_seq, sess, clock>>

\* get_balance_sheet: balances_query, then get_profit_loss's income query, then
\* its expense query; after the third the result is returned
BalanceSheetQuery(r) ==
    /\ req[r].pc = "reading" /\ req[r].kind = "balance_sheet"
    /\ LET snaps == Append(req[r].snaps, [E |-> entries, L |-> lines])
           D == req[r].as_of_date
       IN  req' = [req EXCEPT ![r] =
               IF Len(snaps) < 3
               THEN [@ EXCEPT !.snaps = snaps]
               ELSE [@ EXCEPT !.snaps = snaps, !.pc = "done",
                              !.result =
                                  BalanceSheetOf(snaps[1].E, snaps[1].L, D,
                                      ProfitLossOf(snaps[2].E, snaps[2].L,
                                                   snaps[3].E, snaps[3].L, None, D))]]
    /\ UNCHANGED <<rounding, entries, lines, logs, entry_seq, line_seq, sess, clock>>

\* JournalEntry.post on an approved entry commits while statements are computed
PostWhileReading(id) ==
    /\ id \in DOMAIN entries
    /\ clock < MaxClock
    /\ PostGuard(entries[id])
    /\ entries' = SaveObject(entries, Posted(entries[id], Now))
    /\ clock' = Now
    /\ req' = [r \in DOMAIN req |->
           IF req[r].pc = "reading"
           THEN [req[r] EXCEPT !.points =
                     @ \cup {StatementOf(req[r].kind, entries', lines, req[r].as_of_date)}]
           ELSE req[r]]
    /\ UNCHANGED <<rounding, lines, logs, entry_seq, line_seq, sess>>

NextRead ==
    \/ \E s \in DOMAIN sess : Quiet /\ ProcessAndSave(s)
    \/ \E id \in DOMAIN entries : Quiet /\ ApproveEntry(id)
    \/ \E id \in DOMAIN entries : PostWhileReading(id)
    \/ \E r \in DOMAIN req, D \in Dates : StartStatement(r, "trial_balance", D)
    \/ \E r \in DOMAIN req, D \in Dates : StartStatement(r, "balance_sheet", D)
    \/ \E r \in DOMAIN req : TrialBalanceQuery(r)
    \/ \E r \in DOMAIN req : BalanceSheetQuery(r)
    \/ \E r \in DOMAIN req : Respond(r)

SpecRead == InitBooks /\ [][NextRead]_vars

-----------------------------------------------------------------------------
(* Properties *)

Windows == {None} \cup Dates

\* the stored lines of entry id
LinesOf(id) == {i \in DOMAIN lines : lines[i].journal_entry = id}

DebitSum(id) == SumSeq(MapSeq(AllLines([i \in LinesOf(id) |-> lines[i]]), LAMBDA l : l.debit))
CreditSum(id) == SumSeq(MapSeq(AllLines([i \in LinesOf(id) |-> lines[i]]), LAMBDA l : l.credit))

\* the JournalLine table without the lines of entries that are not posted
LinesOfPostedEntries ==
    [i \in {j \in DOMAIN lines : entries[lines[j].journal_entry].status = "posted"} |-> lines[i]]

\* C1: every balance computation counts a line only if its entry is posted: each
\* statement, for every date or window, is what it would be if the lines of the
\* draft, flagged, pending_review, approved and rejected entries did not exist.
C1_OnlyPostedEntriesCount ==
    /\ \A D \in Dates :
          /\ get_trial_balance(entries, lines, D)
               = get_trial_balance(entries, LinesOfPostedEntries, D)
          /\ get_balance_sheet(entries, lines, D)
               = get_balance_sheet(entries, LinesOfPostedEntries, D)
    /\ \A F \in Windows, T \in Dates :
          get_profit_loss(entries, lines, F, T)
            = get_profit_loss(entries, LinesOfPostedEntries, F, T)
    /\ \A i \in 1..Len(ChartOfAccounts) :
          /\ AccountBalance(entries, lines, ChartOfAccounts[i])
               = AccountBalance(entries, LinesOfPostedEntries, ChartOfAccounts[i])
          /\ \A S \in Windows, T \in Windows :
                get_account_ledger(entries, lines, ChartOfAccounts[i].code, S, T)
                  = get_account_ledger(entries, LinesOfPostedEntries,
                                       ChartOfAccounts[i].code, S, T)

\* a posted entry and an approved one, both with lines, and a non-empty trial balance
C1_Witness ==
    \E a \in DOMAIN entries, b \in DOMAIN entries :
        /\ entries[a].status = "posted" /\ LinesOf(a) # {}
        /\ entries[b].status = "approved" /\ LinesOf(b) # {}
        /\ get_trial_balance(entries, lines, MaxDate).total_credit > 0

\* C2: every posted entry has the sum of its line debits equal to the sum of its
\* line credits.
C2_PostedEntriesBalance ==
    \A id \in DOMAIN entries :
        entries[id].status = "posted" => DebitSum(id) = CreditSum(id)

\* a posted entry with lines
C2_Witness ==
    \E id \in DOMAIN entries :
        entries[id].status = "posted" /\ LinesOf(id) # {} /\ DebitSum(id) > 0

\* C3: for every as-of date the balance sheet satisfies
\* |total_assets - (total_liabilities + total_equity)| < 0.01 and is_balanced.
C3_BalanceSheetIdentity ==
    \A D \in Dates :
        LET b == get_balance_sheet(entries, lines, D)
        IN  /\ Abs(b.total_assets - (b.total_liabilities + b.total_equity)) < Tolerance
            /\ b.is_balanced

\* C4: for every as-of date the trial balance has |total_debit - total_credit| < 0.01
\* and is_balanced.
C4_TrialBalanceBalances ==
    \A D \in Dates :
        LET t == get_trial_balance(entries, lines, D)
        IN  /\ Abs(t.total_debit - t.total_credit) < Tolerance
            /\ t.is_balanced

\* the step in which request r runs JournalEntry.<kind> on the object it loaded
TransitionStep(r, kind) ==
    req[r].pc = "loaded" /\ req[r].kind = kind /\ req'[r].pc = "done"

\* C5: approve(reviewer, notes) on an entry whose line debits do not sum to its
\* line credits fails with an error and leaves the stored entry (status,
\* reviewed_by, review_notes, reviewed_at) and the object unchanged; on an entry
\* whose lines balance it sets status = approved and stamps reviewed_by,
\* review_notes and reviewed_at with the reviewer, the notes and the time.
C5_ApproveContract ==
    [][\A r \in DOMAIN req :
          TransitionStep(r, "approve") =>
             LET id == req[r].obj.id
             IN  IF DebitSum(id) # CreditSum(id)
                 THEN /\ req'[r].result = "error"
                      /\ entries' = entries
                      /\ req'[r].obj = req[r].obj
                 ELSE /\ req'[r].result = "ok"
                      /\ entries'[id].status = "approved"
                      /\ entries'[id].reviewed_by = req[r].reviewer
                      /\ entries'[id].review_notes = req[r].notes
                      /\ entries'[id].reviewed_at = clock'
                      /\ clock' > clock
                      /\ req'[r].obj = entries'[id]]_vars

\* approve has refused an entry whose stored lines do not balance
C5_Witness ==
    \E r \in DOMAIN req :
        /\ req[r].pc = "done" /\ req[r].kind = "approve" /\ req[r].result = "error"
        /\ DebitSum(req[r].obj.id) # CreditSum(req[r].obj.id)
        /\ entries[req[r].obj.id].status = "pending_review"
        /\ entries[req[r].obj.id].reviewed_at = None

\* C6: post() on an entry object whose status is anything other than approved
\* fails with an error and leaves status and posted_at, stored and on the object,
\* unchanged; post() on an approved entry sets status = posted and stamps
\* posted_at with the time.
C6_PostContract ==
    [][\A r \in DOMAIN req :
          TransitionStep(r, "post") =>
             LET id == req[r].obj.id
             IN  IF req[r].obj.status # "approved"
                 THEN /\ req'[r].result = "error"
                      /\ entries'[id].status = entries[id].status
                      /\ entries'[id].posted_at = entries[id].posted_at
                      /\ req'[r].obj = req[r].obj
                 ELSE /\ req'[r].result = "ok"
                      /\ entries'[id].status = "posted"
                      /\ entries'[id].posted_at = clock'
                      /\ clock' > clock
                      /\ req'[r].obj = entries'[id]]_vars

\* post has refused an entry that is pending review
C6_Witness ==
    \E r \in DOMAIN req :
        /\ req[r].pc = "done" /\ req[r].kind = "post" /\ req[r].result = "error"
        /\ req[r].obj.status = "pending_review"
        /\ entries[req[r].obj.id].status = "pending_review"
        /\ entries[req[r].obj.id].posted_at = None

\* C7: posting is irreversible: once an entry is posted, every later approve,
\* reject or post call leaves its status equal to posted.
C7_PostingIrreversible ==
    [][\A id \in DOMAIN entries :
          entries[id].status = "posted" => entries'[id].status = "posted"]_vars

\* the log rows of session s
LogsOf(s) == {k \in DOMAIN logs : logs[k].session_id = s}

\* C8: process_and_save persists the entry atomically: for every entry id handed
\* out, either the JournalEntry row, all of its JournalLine rows and the back-links
\* of all the session's logs are present, or no row, no line and no back-link of
\* that entry is; a call that raised leaves no entry row and no line row.
C8_AtomicPersist ==
    /\ \A id \in 1..entry_seq :
          IF id \in DOMAIN entries
          THEN \E s \in DOMAIN sess :
                  /\ sess[s].entry_id = id
                  /\ sess[s].pc = "saved"
                  /\ Cardinality(LinesOf(id)) = Len(sess[s].entry.lines)
                  /\ LogsOf(s) # {}
                  /\ \A k \in LogsOf(s) : logs[k].journal_entry = id
          ELSE /\ LinesOf(id) = {}
               /\ \A k \in DOMAIN logs : logs[k].journal_entry # id
    /\ \A i \in DOMAIN lines : lines[i].journal_entry \in DOMAIN entries
    /\ \A s \in DOMAIN sess :
          sess[s].pc = "raised" =>
             /\ sess[s].entry_id \notin DOMAIN entries
             /\ LinesOf(sess[s].entry_id) = {}

\* a call that raised after it had written the entry row and a line row
C8_Witness ==
    \E s \in DOMAIN sess :
        /\ sess[s].pc = "raised"
        /\ sess[s].entry_id # 0
        /\ line_seq > 0
        /\ sess[s].entry_id \notin DOMAIN entries

\* requests r1 and r2 each loaded the entry before the other one saved it
Concurrent(r1, r2) ==
    /\ r1 # r2
    /\ req[r1].pc = "done" /\ req[r2].pc = "done"
    /\ req[r1].obj.id = req[r2].obj.id
    /\ req[r1].loaded = req[r2].loaded

\* C9: two approve() requests for the same entry that run concurrently (each
\* loads the entry, evaluates the balance guard, then saves) do not both succeed.
C9_ConcurrentApprovesExclude ==
    \A r1 \in DOMAIN req, r2 \in DOMAIN req :
        (/\ Concurrent(r1, r2)
         /\ req[r1].kind = "approve" /\ req[r2].kind = "approve")
        => ~(req[r1].result = "ok" /\ req[r2].result = "ok")

\* the transition of request r run on row as one step
AsOneStep(row, r) ==
    CASE req[r].kind = "approve" ->
            IF ApproveGuard(lines, row)
            THEN Approved(row, req[r].reviewer, req[r].notes, Now) ELSE row
      [] req[r].kind = "reject" ->
            Rejected(row, req[r].reviewer, req[r].notes, Now)
      [] req[r].kind = "post" ->
            IF PostGuard(row) THEN Posted(row, Now) ELSE row

\* status, review fields and whether the timestamps are set
Outcome(row) ==
    <<row.status, row.reviewed_by, row.review_notes,
      row.reviewed_at # None, row.posted_at # None>>

\* C10: each lifecycle transition is one atomic step: after two concurrent
\* requests on the same entry, the stored status, review fields and posted_at
\* are those of one of the two serial orders of the requests; and an approve or
\* reject that loaded the entry before a post committed does not overwrite the
\* posted status or clear posted_at.
C10_TransitionsSerializable ==
    /\ [](\A r1 \in DOMAIN req, r2 \in DOMAIN req :
             Concurrent(r1, r2) =>
                \/ Outcome(entries[req[r1].obj.id])
                     = Outcome(AsOneStep(AsOneStep(req[r1].loaded, r1), r2))
                \/ Outcome(entries[req[r1].obj.id])
                     = Outcome(AsOneStep(AsOneStep(req[r1].loaded, r2), r1)))
    /\ [][\A r \in DOMAIN req :
             (/\ TransitionStep(r, "approve") \/ TransitionStep(r, "reject")
              /\ req[r].loaded.status # "posted"
              /\ entries[req[r].obj.id].status = "posted")
             => /\ entries'[req[r].obj.id].status = "posted"
                /\ entries'[req[r].obj.id].posted_at = entries[req[r].obj.id].posted_at]_vars

\* C11: every statement computation reads a single point-in-time view of the
\* posted entries: the result of get_trial_balance or get_balance_sheet run while
\* post() commits equals the statement of the store as it was at some moment of
\* the computation (before or after each post), never a mix.
C11_StatementReadsOneSnapshot ==
    \A r \in DOMAIN req :
        (req[r].pc = "done" /\ req[r].kind \in {"trial_balance", "balance_sheet"})
        => req[r].result \in req[r].points

\* C12: every entry process_and_save creates is stored with status pending_review
\* when the checker verdict is approved and flagged when it is flagged, never
\* approved or posted; and a posted entry carries the stamp of an approve() and
\* the later stamp of a post().
C12_CreatedPendingOrFlagged ==
    /\ [][\A id \in DOMAIN entries' \ DOMAIN entries :
             /\ entries'[id].checker_status \in {"approved", "flagged"}
             /\ entries'[id].status =
                    IF entries'[id].checker_status = "approved"
                    THEN "pending_review" ELSE "flagged"
             /\ entries'[id].reviewed_at = None /\ entries'[id].posted_at = None]_vars
    /\ [](\A id \in DOMAIN entries :
             entries[id].status = "posted" =>
                /\ entries[id].reviewed_by \in Usernames
                /\ entries[id].reviewed_at # None
                /\ entries[id].posted_at > entries[id].reviewed_at)

\* a flagged entry has been created, and nobody has reviewed it
C12_Witness ==
    \E id \in DOMAIN entries :
        /\ entries[id].status = "flagged" /\ entries[id].checker_status = "flagged"
        /\ entries[id].reviewed_at = None

\* the maker's answer m, after the repair, breaks a structural rule
StructurallyInvalid(m) ==
    LET ls == Repair(m).lines
    IN  \/ \E i \in 1..Len(ls) : ls[i].debit > 0 /\ ls[i].credit > 0
        \/ \E i \in 1..Len(ls) : ls[i].debit <= 0 /\ ls[i].credit <= 0
        \/ SumSeq(MapSeq(ls, LAMBDA l : l.debit)) # SumSeq(MapSeq(ls, LAMBDA l : l.credit))
        \/ \E i \in 1..Len(ls) : ls[i].account_code \notin AccountCode
        \/ Len(ls) < 2

\* C13: if the maker output cannot be parsed, or the proposed entry fails
\* structural validation (a line with both or neither side positive, debits
\* different from credits, an unknown account code, fewer than two lines), or the
\* checker output is malformed, process_and_save creates no JournalEntry row and
\* no JournalLine row, and the failure is in the result's errors or is raised.
C13_FailedAuthoringCreatesNothing ==
    /\ \A s \in DOMAIN sess :
          (\E k \in LogsOf(s) : /\ logs[k].level = "error"
                                /\ logs[k].stage \in {"maker", "validation", "checker"})
          => /\ sess[s].pc \in {"returned", "raised"}
             /\ sess[s].entry_id = 0
             /\ \A k \in LogsOf(s) : logs[k].journal_entry = None
             /\ \A id \in DOMAIN entries : \E o \in DOMAIN sess \ {s} : sess[o].entry_id = id
             /\ sess[s].pc = "returned" => (sess[s].errors # <<>> /\ ~sess[s].success)
    /\ \A m \in MakerOutputs, c \in CheckerOutputs, d \in Dates :
          (~m.parsed \/ StructurallyInvalid(m) \/ ~CheckerValidates(c))
          => LET result == process(m, d, c)
                 after == AfterProcess(result)
             IN  /\ after.pc \in {"returned", "raised"}
                 /\ \E i \in 1..Len(result.logs) : result.logs[i].level = "error"
                 /\ after.pc = "returned" => (after.errors # <<>> /\ ~after.success)

\* a call has returned a validation failure and the tables are still empty
C13_Witness ==
    \E s \in DOMAIN sess :
        /\ sess[s].pc = "returned" /\ sess[s].errors # <<>>
        /\ \E k \in LogsOf(s) : logs[k].stage = "validation" /\ logs[k].level = "error"
        /\ entries = Empty /\ lines = Empty /\ entry_seq = 0

\* C14: entry numbers have the form JV-<year>-<5-digit sequence>, are pairwise
\* distinct across the entries, and within one calendar year are strictly
\* increasing in the order the entries were created, under any interleaving of
\* entry creations and deletions.
C14_EntryNumbersIncrease ==
    /\ \A a \in DOMAIN entries :
          /\ entries[a].entry_number.year = Year(entries[a].transaction_date)
          /\ entries[a].entry_number.num \in 1..99999
    /\ \A a \in DOMAIN entries, b \in DOMAIN entries :
          a < b =>
             /\ entries[a].entry_number # entries[b].entry_number
             /\ entries[a].entry_number.year = entries[b].entry_number.year
                  => entries[a].entry_number.num < entries[b].entry_number.num

\* the accounts with is_active = False
InactiveAccounts == SelectSeq(ChartOfAccounts, LAMBDA a : ~a.is_active)

\* the account codes a sequence of statement rows names
CodesOf(rows) == {rows[i].code : i \in 1..Len(rows)}

\* C15: a deactivated account never appears in the output of a statement engine
\* (trial balance, profit and loss, balance sheet, account ledger), even when
\* posted lines with a non-zero net balance reference its code.
C15_InactiveAccountsHidden ==
    \A i \in 1..Len(InactiveAccounts) :
       LET a == InactiveAccounts[i]
       IN  AccountBalance(entries, lines, a) # 0 =>
              /\ \A D \in Dates :
                    LET tb == get_trial_balance(entries, lines, D)
                        bs == get_balance_sheet(entries, lines, D)
                    IN  /\ \A t \in DOMAIN tb.accounts_by_type :
                               a.code \notin CodesOf(tb.accounts_by_type[t])
                        /\ a.code \notin CodesOf(bs.current_assets)
                        /\ a.code \notin CodesOf(bs.non_current_assets)
                        /\ a.code \notin CodesOf(bs.current_liabilities)
                        /\ a.code \notin CodesOf(bs.equity_accounts)
              /\ \A f \in Windows, D \in Dates :
                    LET pnl == get_profit_loss(entries, lines, f, D)
                    IN  /\ a.code \notin CodesOf(pnl.income_accounts)
                        /\ a.code \notin CodesOf(pnl.expense_accounts)
              /\ \A start_date \in Windows, end_date \in Windows :
                    LET ledger == get_account_ledger(entries, lines, a.code,
                                                     start_date, end_date)
                    IN  /\ ledger.account # a.code
                        /\ ledger.transactions = <<>>

\* the windows of the account ledger: start_date and end_date each optional
LedgerWindows ==
    {w \in Windows \X Windows : (w[1] # None /\ w[2] # None) => w[1] <= w[2]}

\* the balance of an account from the posted lines dated on or before end_date
\* (from all posted lines when end_date is not given)
BalanceAsOf(account, end_date) ==
    LET rows == SelectSeq(AllLines(lines), LAMBDA l :
                    /\ l.account_code = account.code
                    /\ IsPostedLine(entries, l)
                    /\ (end_date # None => DateLte(entries, l, end_date)))
        t == Aggregate(rows)
    IN  IF account.account_type \in {"asset", "expense"}
        THEN t.debit - t.credit
        ELSE t.credit - t.debit

\* C16: for every existing account and every window [start_date, end_date],
\* either bound optional, the closing_balance of get_account_ledger is the
\* account's balance from all posted lines dated on or before the window's last
\* date: debit minus credit for asset and expense accounts, credit minus debit
\* for the others.
C16_LedgerClosesOnBalance ==
    \A i \in 1..Len(ChartOfAccounts), w \in LedgerWindows :
       get_account_ledger(entries, lines, ChartOfAccounts[i].code, w[1], w[2]).closing_balance
         = BalanceAsOf(ChartOfAccounts[i], w[2])

\* a ledger of a credit-normal account that opens on a non-zero balance brought
\* forward and lists a transaction inside the window
C16_Witness ==
    \E i \in 1..Len(ChartOfAccounts), w \in LedgerWindows :
       LET ledger == get_account_ledger(entries, lines, ChartOfAccounts[i].code, w[1], w[2])
       IN  /\ ChartOfAccounts[i].account_type \notin {"asset", "expense"}
           /\ w[1] # None
           /\ ledger.opening_balance # 0
           /\ ledger.transactions # <<>>
           /\ ledger.closing_balance # ledger.opening_balance

\* account codes that match no Account
UnknownCodes == {"X999", "A005", ""}

\* C17: get_account_ledger called with a code that matches no Account returns a
\* result with an explicit not-found error, account None and an empty
\* transaction list, and never a ledger with balances for the missing account.
C17_UnknownAccountNotFound ==
    \A code \in UnknownCodes, start_date \in Windows, end_date \in Windows :
       LET ledger == get_account_ledger(entries, lines, code, start_date, end_date)
       IN  /\ ledger.error = "not found"
           /\ ledger.account = None
           /\ ledger.transactions = <<>>
           /\ DOMAIN ledger = {"error", "account", "transactions"}

\* the ledger of an unknown code is asked for while the books hold posted lines
C17_Witness ==
    /\ \E id \in DOMAIN entries : entries[id].status = "posted"
    /\ \A code \in UnknownCodes :
          get_account_ledger(entries, lines, code, None, None).account = None

\* entry id is stored with exactly the lines of the invoice of 118000.00
IsInvoice118000(id) ==
    {[account_code |-> lines[i].account_code,
      debit |-> lines[i].debit, credit |-> lines[i].credit] : i \in LinesOf(id)}
      = {Invoice118000.lines[k] : k \in 1..Len(Invoice118000.lines)}

\* this step posts entry id
Posts(id) ==
    /\ id \in DOMAIN entries
    /\ entries[id].status # "posted"
    /\ entries'[id].status = "posted"

\* this step raises both trial balance totals as of D by 118000.00
TotalsRiseBy118000(D) ==
    LET before == get_trial_balance(entries, lines, D)
        after == get_trial_balance(entries', lines', D)
    IN  /\ after.total_debit = before.total_debit + 23600000
        /\ after.total_credit = before.total_credit + 23600000

\* as of D the invoice's accounts stand on their own side of the trial balance:
\* A001 carries no net credit balance; I001, L001 and L002 no net debit balance
OnNormalSide(D) ==
    LET row(code) ==
            TrialBalanceRow(entries, lines,
                            ChartOfAccounts[CHOOSE i \in 1..Len(ChartOfAccounts) :
                                                ChartOfAccounts[i].code = code], D)
    IN  /\ row("A001").credit_balance = 0
        /\ \A code \in {"I001", "L001", "L002"} : row(code).debit_balance = 0

\* C18 as stated: whatever the balances were before, posting the entry
\* [(A001, debit 118000), (I001, credit 100000), (L001, credit 9000),
\* (L002, credit 9000)] raises the trial balance's total_debit and total_credit
\* by exactly 118000 each, for every as-of date on or after the entry's date.
C18_PostingRaisesTotals ==
    [][\A id \in DOMAIN entries : (Posts(id) /\ IsInvoice118000(id)) =>
          \A D \in Dates : D >= entries[id].transaction_date => TotalsRiseBy118000(D)]_vars

\* C18 amended: the same, for the as-of dates at which, before the posting, A001
\* carries no net credit balance and I001, L001, L002 carry no net debit balance.
C18_PostingRaisesTotalsOnNormalSide ==
    [][\A id \in DOMAIN entries : (Posts(id) /\ IsInvoice118000(id)) =>
          \A D \in Dates : (D >= entries[id].transaction_date /\ OnNormalSide(D))
                              => TotalsRiseBy118000(D)]_vars

\* the invoice is posted on books in which a capital entry was posted before it
C18_Witness ==
    \E id \in DOMAIN entries, c \in DOMAIN entries :
       /\ IsInvoice118000(id)
       /\ entries[id].status = "posted"
       /\ entries[c].transaction_type = "capital"
       /\ entries[c].status = "posted"
       /\ entries[c].posted_at < entries[id].posted_at
       /\ entries[c].transaction_date <= entries[id].transaction_date

\* base, cgst and sgst (half-paise) are the breakdown of total: base is
\* total / 1.18 and cgst is 9% of base, each a whole number of paise rounded
\* half-up, and sgst is what remains of the total
IsBreakdown(total, base, cgst, sgst) ==
    /\ base % 2 = 0
    /\ 59 * (base - 1) <= 50 * total
    /\ 50 * total < 59 * (base + 1)
    /\ cgst % 2 = 0
    /\ 100 * (cgst - 1) <= 9 * base
    /\ 9 * base < 100 * (cgst + 1)
    /\ base + cgst + sgst = total

\* the credit of the stored line of entry id on account code
CreditOn(id, code) ==
    SumSeq(MapSeq(AllLines([i \in LinesOf(id) |-> lines[i]]),
                  LAMBDA l : IF l.account_code = code THEN l.credit ELSE 0))

\* C19: for every positive two-decimal total T, from_inclusive_amount(T) returns
\* base + cgst + sgst = T exactly, base being T / 1.18 rounded half-up to two
\* decimals, cgst 9% of base rounded half-up, the rounding remainder absorbed
\* into sgst alone; for T = 118000 it returns 100000.00, 9000.00 and 9000.00.
\* The saved invoices carry that breakdown on I001, L001 and L002.
C19_BreakdownSumsToTotal ==
    /\ \A total \in GSTTotals :
          LET b == from_inclusive_amount(total)
          IN  /\ b.total_amount = total
              /\ IsBreakdown(total, b.base_amount, b.cgst, b.sgst)
    /\ from_inclusive_amount(23600000)
         = [total_amount |-> 23600000, base_amount |-> 20000000,
            cgst |-> 1800000, sgst |-> 1800000]
    /\ \A id \in DOMAIN entries :
          entries[id].transaction_type = "invoice" =>
             IsBreakdown(DebitSum(id), CreditOn(id, "I001"),
                         CreditOn(id, "L001"), CreditOn(id, "L002"))

\* a saved invoice whose sgst took a rounding remainder, and the saved invoice
\* of 118000.00
C19_Witness ==
    /\ \E id \in DOMAIN entries :
          /\ entries[id].transaction_type = "invoice"
          /\ CreditOn(id, "L002") # CreditOn(id, "L001")
    /\ \E id \in DOMAIN entries :
          /\ DebitSum(id) = 23600000
          /\ CreditOn(id, "I001") = 20000000

\* the stored lines of entry id in the table L, in id order, as account and amounts
StoredLines(L, id) ==
    MapSeq(SelectSeq(AllLines(L), LAMBDA l : l.journal_entry = id),
           LAMBDA l : [account_code |-> l.account_code,
                       debit |-> l.debit, credit |-> l.credit])

\* this step is the save() of an approve, a reject or a post of entry id
LifecycleStep(id) ==
    /\ id \in DOMAIN entries
    /\ id \in DOMAIN entries'
    /\ \/ entries'[id].status # entries[id].status
       \/ entries'[id].reviewed_at # entries[id].reviewed_at
       \/ entries'[id].posted_at # entries[id].posted_at

\* approve, reject and post leave the entry's lines and its entry_number as they were
LifecycleKeepsLines ==
    [][\A id \in DOMAIN entries : LifecycleStep(id) =>
          /\ StoredLines(lines', id) = StoredLines(lines, id)
          /\ entries'[id].entry_number = entries[id].entry_number]_vars

\* a flagged or rejected entry holds exactly the lines process() proposed for it
ProposedLinesKept ==
    \A s \in DOMAIN sess :
       (/\ sess[s].entry_id \in DOMAIN entries
        /\ entries[sess[s].entry_id].status \in {"flagged", "rejected"})
          => StoredLines(lines, sess[s].entry_id) = sess[s].entry.lines

\* C20: approve, reject and post never add, remove or modify the lines of the
\* entry they act on, nor its entry_number; an entry that is flagged or rejected
\* still has exactly the lines that were proposed when it was created.
C20_LinesAndNumberFramed ==
    /\ LifecycleKeepsLines
    /\ []ProposedLinesKept

\* the edges of the entry lifecycle: a reviewed entry is approved or rejected,
\* an approved entry is posted, an entry not yet posted may be rejected
LifecycleEdges ==
    ({"flagged", "pending_review"} \X {"approved", "rejected"})
      \cup {<<"approved", "posted">>, <<"approved", "rejected">>}

\* C21: under any sequence of approve, reject and post calls the status of an
\* entry changes only along the lifecycle edges; in particular a rejected entry
\* never becomes approved or posted.
C21_StatusFollowsLifecycle ==
    [][\A id \in DOMAIN entries :
          entries'[id].status # entries[id].status
             => <<entries[id].status, entries'[id].status>> \in LifecycleEdges]_vars

\* C22: for every as-of date D the balance sheet's retained_earnings is the
\* signed total_income - total_expenses of get_profit_loss(None, D), total_equity
\* is the sum of the active equity accounts' balances plus retained_earnings,
\* liabilities_plus_equity = total_liabilities + total_equity and
\* difference = total_assets - liabilities_plus_equity.
C22_BalanceSheetEquity ==
    \A D \in Dates :
       LET bs == get_balance_sheet(entries, lines, D)
           pnl == get_profit_loss(entries, lines, None, D)
       IN  /\ bs.retained_earnings = pnl.total_income - pnl.total_expenses
           /\ bs.retained_earnings =
                 (IF pnl.is_profit THEN pnl.net_profit_loss ELSE -pnl.net_profit_loss)
           /\ bs.total_equity =
                 SumSeq(MapSeq(ActiveAccountsOfType("equity"), LAMBDA a : BalanceAsOf(a, D)))
                   + bs.retained_earnings
           /\ bs.liabilities_plus_equity = bs.total_liabilities + bs.total_equity
           /\ bs.difference = bs.total_assets - bs.liabilities_plus_equity

\* a balance sheet drawn on a loss, with equity paid in
C22_Witness ==
    \E D \in Dates :
       LET bs == get_balance_sheet(entries, lines, D)
       IN  /\ bs.retained_earnings < 0
           /\ bs.total_equity # bs.retained_earnings

\* credit minus debit of the posted lines on the active accounts of type t dated
\* within [from_date, to_date], from_date = None meaning since inception
CreditLessDebit(t, from_date, to_date) ==
    LET accs == ActiveAccountsOfType(t)
        rows == SelectSeq(AllLines(lines), LAMBDA l :
                    /\ \E i \in 1..Len(accs) : accs[i].code = l.account_code
                    /\ entries[l.journal_entry].status = "posted"
                    /\ entries[l.journal_entry].transaction_date <= to_date
                    /\ (from_date # None =>
                           entries[l.journal_entry].transaction_date >= from_date))
    IN  SumSeq(MapSeq(rows, LAMBDA l : l.credit - l.debit))

TrialBalanceRows(D) ==
    LET tb == get_trial_balance(entries, lines, D)
    IN  UNION {{tb.accounts_by_type[t][i] : i \in 1..Len(tb.accounts_by_type[t])} :
                  t \in DOMAIN tb.accounts_by_type}

\* neither side of the row is negative
NeverNegative(r) == r.debit_balance >= 0 /\ r.credit_balance >= 0

\* the row shows the signed balance of its account on the side of its sign
OnSideOfSign(r, D) ==
    LET a == ChartOfAccounts[CHOOSE i \in 1..Len(ChartOfAccounts) :
                                 ChartOfAccounts[i].code = r.code]
        balance == BalanceAsOf(a, D)
        debit_normal == a.account_type \in {"asset", "expense"}
    IN  IF debit_normal <=> balance >= 0
        THEN r.debit_balance = Abs(balance) /\ r.credit_balance = 0
        ELSE r.credit_balance = Abs(balance) /\ r.debit_balance = 0

\* C24 as stated: every row get_trial_balance emits has exactly one of
\* debit_balance and credit_balance non-zero and neither negative, a negative
\* debit-normal balance shown as a positive credit_balance and a negative
\* credit-normal balance as a positive debit_balance.
C24_RowsHaveOneSide ==
    \A D \in Dates : \A r \in TrialBalanceRows(D) :
       /\ NeverNegative(r)
       /\ (r.debit_balance # 0) # (r.credit_balance # 0)
       /\ (r.debit_balance # 0 \/ r.credit_balance # 0) => OnSideOfSign(r, D)

\* C24 amended: no row has both sides non-zero and neither side is ever
\* negative, the balance standing on the side of its sign; a row of an asset,
\* liability, equity or income account has exactly one side non-zero, and the
\* row of an expense account may have both sides zero.
C24_RowsHaveAtMostOneSide ==
    \A D \in Dates : \A r \in TrialBalanceRows(D) :
       /\ NeverNegative(r)
       /\ ~(r.debit_balance # 0 /\ r.credit_balance # 0)
       /\ r.account_type # "expense" => (r.debit_balance # 0 \/ r.credit_balance # 0)
       /\ (r.debit_balance # 0 \/ r.credit_balance # 0) => OnSideOfSign(r, D)

\* a trial balance with an asset on the credit side, an equity account on the
\* debit side and an expense row at zero
C24_Witness ==
    \E D \in Dates :
       /\ \E r \in TrialBalanceRows(D) : r.account_type = "asset" /\ r.credit_balance > 0
       /\ \E r \in TrialBalanceRows(D) : r.account_type = "equity" /\ r.debit_balance > 0
       /\ \E r \in TrialBalanceRows(D) :
             r.account_type = "expense" /\ r.debit_balance = 0 /\ r.credit_balance = 0

\* the ids of the posted lines on the account dated within the window
LinesInWindow(code, start_date, end_date) ==
    {i \in DOMAIN lines :
        /\ lines[i].account_code = code
        /\ entries[lines[i].journal_entry].status = "posted"
        /\ (start_date # None =>
               entries[lines[i].journal_entry].transaction_date >= start_date)
        /\ (end_date # None =>
               entries[lines[i].journal_entry].transaction_date <= end_date)}

\* the amount of a ledger row or line with the sign of the account's type
Signed(account, x) ==
    IF account.account_type \in {"asset", "expense"}
    THEN x.debit - x.credit ELSE x.credit - x.debit

\* row a stands before row b in (transaction_date, entry id, line id) order
RowBefore(a, b) ==
    LET da == entries[a.entry_id].transaction_date
        db == entries[b.entry_id].transaction_date
    IN  \/ da < db
        \/ da = db /\ a.entry_id < b.entry_id
        \/ da = db /\ a.entry_id = b.entry_id /\ a.line_id < b.line_id

\* C25: for an existing account get_account_ledger emits one row per posted
\* line in the window, ordered by (transaction_date, entry id, line id);
\* opening_balance is the signed sum of the posted lines dated strictly before
\* start_date, zero when no start_date is given; the balance on the k-th row is
\* opening_balance plus the signed amounts of rows 1..k, debit minus credit for
\* asset and expense accounts and credit minus debit otherwise.
C25_LedgerRowsAndRunningBalance ==
    \A i \in 1..Len(ChartOfAccounts), start_date \in Windows, end_date \in Windows :
       LET account == ChartOfAccounts[i]
           ledger == get_account_ledger(entries, lines, account.code, start_date, end_date)
           t == ledger.transactions
           before == SelectSeq(AllLines(lines), LAMBDA l :
                         /\ l.account_code = account.code
                         /\ entries[l.journal_entry].status = "posted"
                         /\ start_date # None
                         /\ entries[l.journal_entry].transaction_date < start_date)
       IN  /\ {t[k].line_id : k \in 1..Len(t)}
                = LinesInWindow(account.code, start_date, end_date)
           /\ Len(t) = Cardinality(LinesInWindow(account.code, start_date, end_date))
           /\ \A k \in 1..Len(t) :
                 /\ t[k].entry_id = lines[t[k].line_id].journal_entry
                 /\ t[k].debit = lines[t[k].line_id].debit
                 /\ t[k].credit = lines[t[k].line_id].credit
           /\ \A j \in 1..Len(t), k \in 1..Len(t) : j < k => RowBefore(t[j], t[k])
           /\ ledger.opening_balance
                = SumSeq(MapSeq(before, LAMBDA l : Signed(account, l)))
           /\ \A k \in 1..Len(t) :
                 t[k].balance = ledger.opening_balance
                    + SumSeq(MapSeq(SubSeq(t, 1, k), LAMBDA x : Signed(account, x)))

\* a ledger of two rows that stand in date order against the order of their
\* entry ids, and a ledger that opens on a balance brought forward
C25_Witness ==
    /\ \E i \in 1..Len(ChartOfAccounts) :
          LET t == get_account_ledger(entries, lines, ChartOfAccounts[i].code,
                                      None, None).transactions
          IN  Len(t) = 2 /\ t[1].entry_id > t[2].entry_id
    /\ \E i \in 1..Len(ChartOfAccounts), start_date \in Dates :
          LET ledger == get_account_ledger(entries, lines, ChartOfAccounts[i].code,
                                           start_date, None)
          IN  ledger.opening_balance # 0 /\ ledger.transactions # <<>>

\* the log rows of session s that record a repair, and those that record the
\* outcome of the structural validation
RepairLogs(s) == {k \in LogsOf(s) : logs[k].message = "repair"}
ValidationOutcomeLogs(s) ==
    {k \in LogsOf(s) : logs[k].stage = "validation"
                       /\ logs[k].message \in {"passed", "failed"}}

C27_StoredLinesOneSided ==
    /\ \A i \in DOMAIN lines :
          /\ lines[i].debit >= 0
          /\ lines[i].credit >= 0
          /\ (lines[i].debit > 0) # (lines[i].credit > 0)
    /\ \A id \in DOMAIN entries : Cardinality(LinesOf(id)) >= 2

\* C29: every entry persisted by process_and_save with status pending_review
\* has checker_status approved and no checker error or warning, and every
\* entry persisted with status flagged has checker_status flagged and at least
\* one checker error or warning.
C29_StatusMatchesCheckerVerdict ==
    \A id \in DOMAIN entries :
       /\ entries[id].status = "pending_review" =>
             /\ entries[id].checker_status = "approved"
             /\ entries[id].checker_errors = <<>>
             /\ entries[id].checker_warnings = <<>>
       /\ entries[id].status = "flagged" =>
             /\ entries[id].checker_status = "flagged"
             /\ (entries[id].checker_errors # <<>> \/ entries[id].checker_warnings # <<>>)

\* a pending_review entry and an entry flagged on a warning alone are both saved
C29_Witness ==
    /\ \E id \in DOMAIN entries : entries[id].status = "pending_review"
    /\ \E id \in DOMAIN entries :
          /\ entries[id].status = "flagged"
          /\ entries[id].checker_errors = <<>>
          /\ entries[id].checker_warnings # <<>>

\* the ids of the posted entries
PostedEntries == {id \in DOMAIN entries : entries[id].status = "posted"}

\* every posted entry balances and every posted line names an active account
BooksBalancedOnActiveAccounts ==
    /\ \A id \in PostedEntries : DebitSum(id) = CreditSum(id)
    /\ \A i \in DOMAIN lines :
          lines[i].journal_entry \in PostedEntries =>
             \E k \in 1..Len(ActiveAccounts) : ActiveAccounts[k].code = lines[i].account_code

\* C28: if every posted entry balances and every posted line references the
\* code of an active account, then for every as-of date D the trial balance's
\* difference and the balance sheet's difference are exactly zero, not merely
\* within the 0.01 tolerance.
C28_DifferencesExactlyZero ==
    BooksBalancedOnActiveAccounts =>
       \A D \in Dates :
          /\ get_trial_balance(entries, lines, D).difference = 0
          /\ get_balance_sheet(entries, lines, D).difference = 0

\* balanced books on active accounts with capital paid in and a loss made
C28_Witness ==
    /\ BooksBalancedOnActiveAccounts
    /\ Cardinality(PostedEntries) = 2
    /\ \E D \in Dates :
          /\ get_trial_balance(entries, lines, D).total_debit > 0
          /\ ~get_profit_loss(entries, lines, None, D).is_profit
          /\ get_balance_sheet(entries, lines, D).total_assets # 0

\* C30: in every state reachable through process_and_save, approve, reject and
\* post, an entry has posted_at set if and only if its status is posted, and
\* every entry whose status is approved, rejected or posted has reviewed_at and
\* reviewed_by set.
C30_StampsMatchStatus ==
    \A id \in DOMAIN entries :
       /\ entries[id].posted_at # None <=> entries[id].status = "posted"
       /\ entries[id].status \in {"approved", "rejected", "posted"} =>
             /\ entries[id].reviewed_at # None
             /\ entries[id].reviewed_by # ""

====
